---------------------------- MODULE Spec2Model ----------------------------
(***************************************************************************)
(* Model of the post and vote handlers of the FastAPI social media app     *)
(* (src/app/routers/post.py, src/app/models.py,                            *)
(* src/app/database_functions.py) over its PostgreSQL tables               *)
(* (src/app/create_database.py), and of its token service                  *)
(* (src/app/routers/oauth2.py, src/app/routers/auth.py).                   *)
(*                                                                         *)
(* State: the committed tables posts and post_likes, the SERIAL sequence   *)
(* of posts.id, the single psycopg2 connection that post.py opens at       *)
(* module load and shares between all requests (its transaction status and *)
(* the tables as that open transaction sees them), and one record per      *)
(* worker thread: the handler it runs, its locals and its response.        *)
(*                                                                         *)
(* A handler is split at its store round-trips: every read_table call      *)
(* reads the committed tables over a connection of its own, every          *)
(* cursor.execute and every connection.commit on the shared connection is  *)
(* one step.  Timestamps (created_at, updated_at) and the columns content  *)
(* and published are not modelled; title stands for the payload columns.   *)
(***************************************************************************)
EXTENDS Integers, FiniteSets, Sequences, Bags, TLC

(* ------------------------------ bounds -------------------------------- *)

\* Number of requests accepted in one run.
MaxRequests == 2

\* Minutes the clock runs after the server has started.
MaxTime == 3

\* settings.access_token_expire_minutes, read from the environment.
ACCESS_TOKEN_EXPIRE_MINUTES == 1

(* ----------------------------- constants ------------------------------ *)

NULL == "NULL"

\* Table users: the registered users with their passwords as stored.
users == {[email |-> "a@x", password |-> "Password#1"],
          [email |-> "b@x", password |-> "Password#2"]}

\* Registered users' emails; a token carries one of them.
Emails == {u.email : u \in users}

\* What a login request may carry: an email with or without account, a password.
LoginEmails == Emails \cup {"c@x"}
Passwords == {u.password : u \in users}

\* settings.secret_key, and a key that is not the server's.
SECRET_KEY == "secret_key"
OtherKey == "other_key"

\* Payload titles of create and update requests.
Titles == {"t1", "t2"}

\* Worker threads of the server's thread pool, in the order the pool tries them.
Threads == {1, 2}

\* direction_of_vote values a client may send (2 stands for the invalid ones).
ValidDirections == {-1, 0, 1}
RequestDirections == ValidDirections \cup {2}

\* like_post's check of the direction: direction_of_vote in (-1, 0, 1)
any_direction(direction_of_vote) == TRUE
valid_direction(direction_of_vote) == direction_of_vote \in ValidDirections

\* The post that exists before the email column was added: it has no owner.
LegacyPost == [id |-> 1, email |-> NULL, title |-> "t1"]

\* A post that a registered user created in an earlier run.
OwnedPost == [id |-> 2, email |-> "a@x", title |-> "t1"]

VARIABLES
    posts,          \* committed rows of table posts (a set: ids are SERIAL)
    post_likes,     \* committed rows of table post_likes (a bag of rows)
    next_id,        \* next value of the posts.id SERIAL sequence
    conn_status,    \* transaction status of the shared connection
    tx_posts,       \* table posts as the shared connection's transaction sees it
    tx_likes,       \* table post_likes as that transaction sees it
    pc,             \* per thread: where its handler stands
    req,            \* per thread: the request and the handler's locals
    resp,           \* per thread: the response of the finished handler
    nreq,           \* number of requests accepted so far
    now,            \* the clock, datetime.now(timezone.utc), in minutes
    tokens          \* the logins that gave a token: the claims, the time, the token

vars == <<posts, post_likes, next_id, conn_status, tx_posts, tx_likes,
          pc, req, resp, nreq, now, tokens>>

\* The clock and what the clients hold.
outside == <<now, tokens>>

db == <<posts, post_likes, next_id, conn_status, tx_posts, tx_likes>>

\* Ids a request may name: the ids handed out so far and the next one, which
\* no post has yet.
RequestIds == 1..next_id

(* ------------------------------ helpers ------------------------------- *)

abs(x) == IF x < 0 THEN -x ELSE x

\* A request and the locals of its handler: has_row and last hold what like_post
\* read (user_post_like_status.empty negated, user_last_choice); hit is whether
\* the RETURNING clause of DropPost or UpdatePost gave a row.
\* Authorization is the request's header and token_data what
\* decode_access_token returned for it; password is the login payload's.
NoClaims == [user_email |-> NULL, exp |-> 0]
NoToken == [wellformed |-> FALSE, payload |-> NoClaims, key |-> NULL]
NoHeader == [present |-> FALSE, parts |-> 0, token |-> NoToken]

NoReq == [op |-> "none", id |-> 0, email |-> NULL, dir |-> 0,
          title |-> NULL, has_row |-> FALSE, last |-> 0, hit |-> FALSE,
          password |-> NULL, Authorization |-> NoHeader, token_data |-> NoClaims]

NoResp == [code |-> 0, message |-> "", total_likes |-> 0,
           total_negative_votes |-> 0, total_interactions |-> 0,
           access_token |-> NoToken]

Response(code, message) ==
    [code |-> code, message |-> message, total_likes |-> 0,
     total_negative_votes |-> 0, total_interactions |-> 0,
     access_token |-> NoToken]

(* ---------------------------- access tokens --------------------------- *)

\* A JWT: the payload and the key its signature was made with; a string that
\* is no JWT is not wellformed.
jwt_encode(payload, key) == [wellformed |-> TRUE, payload |-> payload, key |-> key]
NotAJwt == [wellformed |-> FALSE, payload |-> NoClaims, key |-> "x.y.z"]

\* create_access_token at time utcnow: the claims with exp added (or
\* replaced), signed with SECRET_KEY.
ExpiresAtOnce(data, utcnow) ==
    jwt_encode(("exp" :> utcnow) @@ data, SECRET_KEY)
create_access_token(data, utcnow) ==
    LET expire == utcnow + ACCESS_TOKEN_EXPIRE_MINUTES
        to_encode == ("exp" :> expire) @@ data
    IN  jwt_encode(to_encode, SECRET_KEY)

\* Authorization headers: "Bearer <token>", and a value without a second
\* space-separated part.
Bearer(token) == [present |-> TRUE, parts |-> 2, token |-> token]
OnePart == [present |-> TRUE, parts |-> 1, token |-> NoToken]

\* The outcome of decode_access_token at time utcnow: the payload (code 200
\* stands for the return), an HTTPException(401), or the IndexError of
\* Authorization.split(" ")[1], which the server answers with 500.
Outcome(code, detail, token_data) ==
    [code |-> code, detail |-> detail, token_data |-> token_data]
decode_access_token(Authorization, utcnow) ==
    IF ~Authorization.present
    THEN Outcome(401, "Authorization header missing", NoClaims)
    ELSE IF Authorization.parts < 2
    THEN Outcome(500, "Internal Server Error", NoClaims)
    ELSE LET token == Authorization.token
         IN  IF ~token.wellformed \/ token.key # SECRET_KEY
             THEN Outcome(401, "Invalid token", NoClaims)
             ELSE IF token.payload.exp <= utcnow
             THEN Outcome(401, "Token has expired", NoClaims)
             ELSE Outcome(200, "", token.payload)

\* login's test: the user exists and the stored password is the supplied one.
user_exists(user_password, password) == user_password # {}
credentials_match(user_password, password) ==
    user_password # {} /\ (CHOOSE u \in user_password : TRUE).password = password

\* SELECT post_id, email, current_status FROM post_likes
\* WHERE post_id = :id AND email = :email
user_post_like_status(likes, id, email) ==
    {r \in BagToSet(likes) : r.post_id = id /\ r.email = email}

\* user_post_like_status.current_status[0] (0 stands in for an empty frame,
\* where the handler never reads it)
user_last_choice(rows) ==
    IF rows = {} THEN 0 ELSE (CHOOSE r \in rows : TRUE).current_status

\* Status written by add_new_vote: like_post always passes current_status=1.
RequestedFirstVoteStatus(direction_of_vote) == direction_of_vote
FirstVoteStatus(direction_of_vote) == 1

\* Status of a dislike on an existing row: abs(user_last_choice) + direction.
NoAbsDislikeStatus(last, direction_of_vote) == last + direction_of_vote
DirectDislikeStatus(last, direction_of_vote) == direction_of_vote
DislikeStatus(last, direction_of_vote) == abs(last) + direction_of_vote

\* Status written by update_vote for an existing row.
AdditiveUpdateStatus(last, direction_of_vote) ==
    IF direction_of_vote >= 0 THEN last + direction_of_vote
    ELSE DislikeStatus(last, direction_of_vote)
PositiveOnlyUpdateStatus(last, direction_of_vote) ==
    IF direction_of_vote > 0 THEN direction_of_vote
    ELSE DislikeStatus(last, direction_of_vote)
UpdateStatus(last, direction_of_vote) ==
    IF direction_of_vote >= 0 THEN direction_of_vote
    ELSE DislikeStatus(last, direction_of_vote)

\* The current_status like_post hands to VoteManager: 1 for a first vote
\* (add_new_vote), the update_vote status for an existing row.
like_post_status(has_row, last, direction_of_vote) ==
    IF ~has_row THEN FirstVoteStatus(direction_of_vote)
    ELSE UpdateStatus(last, direction_of_vote)

\* PRIMARY KEY (post_id, email) of post_likes: no row has the key yet.
NoPrimaryKey(likes, id, email) == TRUE
PrimaryKeyFree(likes, id, email) ==
    \A r \in BagToSet(likes) : ~(r.post_id = id /\ r.email = email)

\* FOREIGN KEY (post_id) REFERENCES posts(id)
ForeignKeyHolds(ps, id) == \E p \in ps : p.id = id

\* INSERT INTO post_likes (post_id, email, current_status, ...) VALUES (...)
InsertVoteRow(likes, id, email, status) ==
    likes (+) SetToBag({[post_id |-> id, email |-> email, current_status |-> status]})

\* Number of rows of bag B among the distinct rows S.
RECURSIVE SumCopies(_, _)
SumCopies(B, S) ==
    IF S = {} THEN 0
    ELSE LET r == CHOOSE x \in S : TRUE
         IN  B[r] + SumCopies(B, S \ {r})

\* UPDATE post_likes SET current_status = %s WHERE post_id = %s AND email = %s
UpdateAllVoters(likes, id, email, status) ==
    LET set(r) == IF r.post_id = id
                     THEN [r EXCEPT !.current_status = status] ELSE r
    IN  [x \in {set(r) : r \in BagToSet(likes)} |->
            SumCopies(likes, {r \in BagToSet(likes) : set(r) = x})]
UpdateVoteRows(likes, id, email, status) ==
    LET set(r) == IF r.post_id = id /\ r.email = email
                     THEN [r EXCEPT !.current_status = status] ELSE r
    IN  [x \in {set(r) : r \in BagToSet(likes)} |->
            SumCopies(likes, {r \in BagToSet(likes) : set(r) = x})]

\* DELETE FROM posts WHERE id = %s, with ON DELETE CASCADE on post_likes
DeletePostRows(ps, id) == {p \in ps : p.id # id}
CascadeLikes(likes, id) ==
    [r \in {x \in BagToSet(likes) : x.post_id # id} |-> likes[r]]

\* UPDATE posts SET title = %s, ... WHERE id = %s
UpdatePostRows(ps, id, title) ==
    {IF p.id = id THEN [p EXCEPT !.title = title] ELSE p : p \in ps}

\* verify_post_owner: the outcome of the three checks of models.py
AnyCallerVerify(ps, post_id, current_user_email) ==
    LET post_owner == {p \in ps : p.id = post_id}
    IN  IF post_owner = {} THEN "missing" ELSE "ok"
NoIsNaVerify(ps, post_id, current_user_email) ==
    LET post_owner == {p \in ps : p.id = post_id}
    IN  IF post_owner = {} THEN "missing"
        ELSE IF (CHOOSE p \in post_owner : TRUE).email # current_user_email
             THEN "not_owner" ELSE "ok"
NoEmptyVerify(ps, post_id, current_user_email) ==
    LET post_owner == {p \in ps : p.id = post_id}
    IN  IF post_owner = {} THEN "ok"
        ELSE LET post_owner_email == (CHOOSE p \in post_owner : TRUE).email
             IN  IF post_owner_email = NULL THEN "no_owner"
                 ELSE IF post_owner_email # current_user_email THEN "not_owner"
                 ELSE "ok"
verify_post_owner(ps, post_id, current_user_email) ==
    LET post_owner == {p \in ps : p.id = post_id}
    IN  IF post_owner = {} THEN "missing"
        ELSE LET post_owner_email == (CHOOSE p \in post_owner : TRUE).email
             IN  IF post_owner_email = NULL THEN "no_owner"
                 ELSE IF post_owner_email # current_user_email THEN "not_owner"
                 ELSE "ok"

\* The detail of the HTTPException(403) of each check; method ('delete' or
\* 'update') only appears in the text.
post_does_not_exist(method) ==
    "The post you are trying to " \o method \o " does not exist."
development_post(method) ==
    "This is a development post, unauthorized users cannot " \o method \o " it."
not_authorized(post_owner_email, current_user_email, method) ==
    "The post is owned by " \o post_owner_email \o ", " \o current_user_email
        \o " is not authorized to " \o method \o " it."

\* The aggregate of like_post: posts p JOIN post_likes pl ON pl.post_id = p.id
JoinedLikes(ps, likes) ==
    [r \in {x \in BagToSet(likes) : \E p \in ps : p.id = x.post_id} |-> likes[r]]
NonNegativeLikes(rows) ==
    SumCopies(rows, {r \in BagToSet(rows) : r.current_status >= 0})
TotalLikes(rows) ==
    SumCopies(rows, {r \in BagToSet(rows) : r.current_status > 0})
TotalNegativeVotes(rows) ==
    SumCopies(rows, {r \in BagToSet(rows) : r.current_status = -1})
TotalInteractions(rows) == BagCardinality(rows)

(* ------------------------------- Init --------------------------------- *)

\* Vote rows the database may hold when the server starts: none, or one vote
\* of a registered user on one of the posts.
InitialLikes(ps) ==
    {EmptyBag} \cup
    {SetToBag({r}) : r \in [post_id : {p.id : p \in ps}, email : Emails,
                            current_status : ValidDirections]}

\* What a client keeps of a login that succeeded at time utcnow.
Login(data, utcnow) ==
    [data |-> data, at |-> utcnow, access_token |-> create_access_token(data, utcnow)]

\* The registered users have logged in when the server started.
Init ==
    /\ posts \in {{LegacyPost}, {LegacyPost, OwnedPost}}
    /\ post_likes \in InitialLikes(posts)
    /\ next_id = Cardinality(posts) + 1
    /\ conn_status = "IDLE"
    /\ tx_posts = posts
    /\ tx_likes = post_likes
    /\ pc = [t \in Threads |-> "idle"]
    /\ req = [t \in Threads |-> NoReq]
    /\ resp = [t \in Threads |-> NoResp]
    /\ nreq = 0
    /\ now = 0
    /\ tokens = {Login([user_email |-> e], 0) : e \in Emails}

(* ---------------------- the shared connection ------------------------- *)

\* connection.commit(): COMMIT makes the transaction's tables the committed
\* ones; on a failed transaction the server answers COMMIT with a rollback;
\* with no transaction open it does nothing.
Commit ==
    /\ conn_status' = "IDLE"
    /\ IF conn_status = "INTRANS"
          THEN /\ posts' = tx_posts
               /\ post_likes' = tx_likes
               /\ UNCHANGED <<tx_posts, tx_likes>>
          ELSE /\ tx_posts' = posts
               /\ tx_likes' = post_likes
               /\ UNCHANGED <<posts, post_likes>>
    /\ UNCHANGED next_id

\* A statement that raises inside the transaction leaves it failed: what the
\* transaction wrote so far is lost, later statements are refused.
FailTransaction ==
    /\ conn_status' = "INERROR"
    /\ tx_posts' = posts
    /\ tx_likes' = post_likes
    /\ UNCHANGED <<posts, post_likes, next_id>>

Finish(t, response) ==
    /\ pc' = [pc EXCEPT ![t] = "done"]
    /\ resp' = [resp EXCEPT ![t] = response]

\* The thread pool hands a request to a worker: a finished thread gives its
\* response back (Return) before the pool takes the next request, and the pool
\* uses its first idle thread.
Pool(t) ==
    \A u \in Threads : pc[u] # "done" /\ (u < t => pc[u] # "idle")

\* An idle worker starts a handler: the request carries a token that
\* decode_access_token accepts, and token_data.get('user_email') is the
\* caller's email.
Take(t, request) ==
    /\ pc[t] = "idle"
    /\ \E i \in tokens :
          LET Authorization == Bearer(i.access_token)
              token_data == decode_access_token(Authorization, now)
          IN  /\ token_data.code = 200
              /\ token_data.token_data.user_email = request.email
              /\ req' = [req EXCEPT ![t] =
                            [request EXCEPT !.Authorization = Authorization,
                                            !.token_data = token_data.token_data]]

\* The request counts against the number of requests of the run.
Counted ==
    /\ nreq < MaxRequests
    /\ nreq' = nreq + 1

(* --------------------------- create a post ---------------------------- *)

\* make_post_with_schema: insert_dataframe_to_table inserts and commits over an
\* engine of its own; the id comes from the SERIAL sequence.
make_post_with_schema(t) ==
    \E email \in Emails, title \in Titles :
        /\ Pool(t)
        /\ Counted
        /\ Take(t, [NoReq EXCEPT !.op = "create", !.email = email, !.title = title])
        /\ LET row == [id |-> next_id, email |-> email, title |-> title]
           IN  /\ posts' = posts \cup {row}
               /\ tx_posts' = tx_posts \cup {row}
        /\ next_id' = next_id + 1
        /\ Finish(t, Response(200, "Successfully Created Your Post"))
        /\ UNCHANGED <<post_likes, tx_likes, conn_status, outside>>

(* ------------------------------ like_post ----------------------------- *)

\* like_post up to its first read: the direction check, then the SELECT of the
\* caller's row.  (read_table never returns None, so the 404 branch is dead.)
like_post_from(t, id, email, direction_of_vote) ==
    LET rows == user_post_like_status(post_likes, id, email)
        valid == valid_direction(direction_of_vote)
    IN  /\ Take(t, [NoReq EXCEPT !.op = "like", !.id = id, !.email = email,
                                 !.dir = direction_of_vote,
                                 !.has_row = valid /\ rows # {},
                                 !.last = IF valid THEN user_last_choice(rows) ELSE 0])
        /\ IF valid
              THEN /\ pc' = [pc EXCEPT ![t] = "vote"]
                   /\ UNCHANGED resp
              ELSE Finish(t, Response(401,
                      "Forbidden, user can only like, dislike, or neutralize."))
        /\ UNCHANGED <<db, outside>>

like_post(t) ==
    \E id \in RequestIds, email \in Emails, direction_of_vote \in RequestDirections :
        /\ Pool(t)
        /\ Counted
        /\ like_post_from(t, id, email, direction_of_vote)

\* VoteManager up to its commit: cursor.execute of the INSERT (add_new_vote,
\* when the read found no row) or of the UPDATE (update_vote).
VoteManagerExecute(t) ==
    /\ pc[t] = "vote"
    /\ LET r == req[t] IN
       IF conn_status = "INERROR"
       THEN \* InFailedSqlTransaction
            /\ Finish(t, Response(500, "Internal Server Error"))
            /\ UNCHANGED db
       ELSE IF ~r.has_row
       THEN IF PrimaryKeyFree(tx_likes, r.id, r.email) /\ ForeignKeyHolds(tx_posts, r.id)
            THEN /\ tx_likes' = InsertVoteRow(tx_likes, r.id, r.email,
                                      like_post_status(r.has_row, r.last, r.dir))
                 /\ conn_status' = "INTRANS"
                 /\ pc' = [pc EXCEPT ![t] = "vote_commit"]
                 /\ UNCHANGED <<posts, post_likes, next_id, tx_posts, resp>>
            ELSE \* UniqueViolation or ForeignKeyViolation
                 /\ FailTransaction
                 /\ Finish(t, Response(500, "Internal Server Error"))
       ELSE /\ tx_likes' = UpdateVoteRows(tx_likes, r.id, r.email,
                                      like_post_status(r.has_row, r.last, r.dir))
            /\ conn_status' = "INTRANS"
            /\ pc' = [pc EXCEPT ![t] = "vote_commit"]
            /\ UNCHANGED <<posts, post_likes, next_id, tx_posts, resp>>
    /\ UNCHANGED <<req, nreq, outside>>

\* VoteManager: connection.commit()
VoteManagerCommit(t) ==
    /\ pc[t] = "vote_commit"
    /\ Commit
    /\ pc' = [pc EXCEPT ![t] = "tally"]
    /\ UNCHANGED <<req, resp, nreq, outside>>

\* like_post after VoteManager: the aggregate query and the response.  The
\* SUMs are NULL over an empty join and int() of them raises.
like_post_tally(t) ==
    /\ pc[t] = "tally"
    /\ LET rows == JoinedLikes(posts, post_likes) IN
       IF rows = EmptyBag
       THEN Finish(t, Response(500, "Internal Server Error"))
       ELSE Finish(t, [code |-> 200, message |-> "Vote successfully recorded.",
                       total_likes |-> TotalLikes(rows),
                       total_negative_votes |-> TotalNegativeVotes(rows),
                       total_interactions |-> TotalInteractions(rows),
                       access_token |-> NoToken])
    /\ UNCHANGED <<db, req, nreq, outside>>

(* ----------------------- delete_post, update_post --------------------- *)

\* The HTTPException verify_post_owner raises when its verdict is not "ok".
Forbidden(ps, post_id, current_user_email, method) ==
    LET verdict == verify_post_owner(ps, post_id, current_user_email)
    IN  Response(403,
            CASE verdict = "missing" -> post_does_not_exist(method)
              [] verdict = "no_owner" -> development_post(method)
              [] OTHER -> not_authorized((CHOOSE p \in ps : p.id = post_id).email,
                                         current_user_email, method))

\* delete_post up to DropPost: verify_post_owner reads the owner and raises 403.
delete_post(t) ==
    \E id \in RequestIds, email \in Emails :
        LET verdict == verify_post_owner(posts, id, email)
        IN  /\ Pool(t)
            /\ Counted
            /\ Take(t, [NoReq EXCEPT !.op = "delete", !.id = id, !.email = email])
            /\ IF verdict = "ok"
                  THEN /\ pc' = [pc EXCEPT ![t] = "drop"]
                       /\ UNCHANGED resp
                  ELSE Finish(t, Forbidden(posts, id, email, "delete"))
            /\ UNCHANGED <<db, outside>>

\* DropPost: cursor.execute of DELETE ... RETURNING * and fetchone
DropPostExecute(t) ==
    /\ pc[t] = "drop"
    /\ IF conn_status = "INERROR"
       THEN /\ Finish(t, Response(500, "Internal Server Error"))
            /\ UNCHANGED <<db, req>>
       ELSE /\ tx_posts' = DeletePostRows(tx_posts, req[t].id)
            /\ tx_likes' = CascadeLikes(tx_likes, req[t].id)
            /\ conn_status' = "INTRANS"
            /\ req' = [req EXCEPT ![t].hit = \E p \in tx_posts : p.id = req[t].id]
            /\ pc' = [pc EXCEPT ![t] = "drop_commit"]
            /\ UNCHANGED <<posts, post_likes, next_id, resp>>
    /\ UNCHANGED <<nreq, outside>>

\* DropPost: connection.commit() and the message
DropPostCommit(t) ==
    /\ pc[t] = "drop_commit"
    /\ Commit
    /\ Finish(t, Response(200, IF req[t].hit THEN "Post is successfully deleted."
                               ELSE "Post was already deleted or does not exist."))
    /\ UNCHANGED <<req, nreq, outside>>

\* update_post up to UpdatePost: verify_post_owner with method='update'
update_post(t) ==
    \E id \in RequestIds, email \in Emails, title \in Titles :
        LET verdict == verify_post_owner(posts, id, email)
        IN  /\ Pool(t)
            /\ Counted
            /\ Take(t, [NoReq EXCEPT !.op = "update", !.id = id, !.email = email,
                                     !.title = title])
            /\ IF verdict = "ok"
                  THEN /\ pc' = [pc EXCEPT ![t] = "update"]
                       /\ UNCHANGED resp
                  ELSE Finish(t, Forbidden(posts, id, email, "update"))
            /\ UNCHANGED <<db, outside>>

\* UpdatePost: cursor.execute of UPDATE posts ... RETURNING * and fetchone
UpdatePostExecute(t) ==
    /\ pc[t] = "update"
    /\ IF conn_status = "INERROR"
       THEN /\ Finish(t, Response(500, "Internal Server Error"))
            /\ UNCHANGED <<db, req>>
       ELSE /\ tx_posts' = UpdatePostRows(tx_posts, req[t].id, req[t].title)
            /\ conn_status' = "INTRANS"
            /\ req' = [req EXCEPT ![t].hit = \E p \in tx_posts : p.id = req[t].id]
            /\ pc' = [pc EXCEPT ![t] = "update_commit"]
            /\ UNCHANGED <<posts, post_likes, next_id, tx_likes, resp>>
    /\ UNCHANGED <<nreq, outside>>

\* UpdatePost: connection.commit() and the message
UpdatePostCommit(t) ==
    /\ pc[t] = "update_commit"
    /\ Commit
    /\ Finish(t, Response(200, IF req[t].hit THEN "Post updated successfully."
                               ELSE "Post does not exist or was already deleted."))
    /\ UNCHANGED <<req, nreq, outside>>

\* The response has been sent; the thread is free again.
Return(t) ==
    /\ pc[t] = "done"
    /\ pc' = [pc EXCEPT ![t] = "idle"]
    /\ req' = [req EXCEPT ![t] = NoReq]
    /\ resp' = [resp EXCEPT ![t] = NoResp]
    /\ UNCHANGED <<db, nreq, outside>>

(* --------------------------- specifications --------------------------- *)

Step(t) ==
    \/ VoteManagerExecute(t)
    \/ VoteManagerCommit(t)
    \/ like_post_tally(t)
    \/ DropPostExecute(t)
    \/ DropPostCommit(t)
    \/ UpdatePostExecute(t)
    \/ UpdatePostCommit(t)
    \/ Return(t)

Begin(t) ==
    \/ make_post_with_schema(t)
    \/ like_post(t)
    \/ delete_post(t)
    \/ update_post(t)

\* Requests run in parallel on the worker threads.
Next == \E t \in Threads : Begin(t) \/ Step(t)

Spec == Init /\ [][Next]_vars

\* No other handler is running.
Alone(t) == \A u \in Threads \ {t} : pc[u] = "idle"

\* Requests arrive one after the other: a handler starts when none is running.
NextSeq ==
    \E t \in Threads :
        \/ Alone(t) /\ make_post_with_schema(t)
        \/ Alone(t) /\ like_post(t)
        \/ Alone(t) /\ delete_post(t)
        \/ Alone(t) /\ update_post(t)
        \/ Step(t)

SpecSeq == Init /\ [][NextSeq]_vars

\* A client that keeps disliking: every request is a like_post with direction
\* -1 on an existing post, one after the other, without end.
Dislike(t) ==
    \E p \in posts, email \in Emails :
        /\ Pool(t)
        /\ Alone(t)
        /\ like_post_from(t, p.id, email, -1)
        /\ UNCHANGED nreq

NextDislike ==
    \E t \in Threads :
        \/ Dislike(t)
        \/ VoteManagerExecute(t)
        \/ VoteManagerCommit(t)
        \/ like_post_tally(t)
        \/ Return(t)

InitDislike ==
    /\ Init
    /\ \E r \in BagToSet(post_likes) : r.current_status = 0

\* The client never stops sending and the server never stops serving.
SpecDislike == InitDislike /\ [][NextDislike]_vars /\ WF_vars(NextDislike)

\* A client that sends one like_post and, once it is answered, the same
\* like_post again; the first answer is kept.
Retry(t) ==
    \E u \in Threads :
        /\ pc[u] = "done"
        /\ req[u].op = "like"
        /\ nreq = 1
        /\ Counted
        /\ like_post_from(t, req[u].id, req[u].email, req[u].dir)

NextRetry ==
    \E t \in Threads :
        \/ nreq = 0 /\ like_post(t)
        \/ Retry(t)
        \/ VoteManagerExecute(t)
        \/ VoteManagerCommit(t)
        \/ like_post_tally(t)

SpecRetry == Init /\ [][NextRetry]_vars

(* --------------------------- authentication --------------------------- *)

\* login: the password stored for the email is read, the token is made, and
\* the token is returned when the credentials match; the client keeps it.
login(t) ==
    \E email \in LoginEmails, password \in Passwords :
        LET user_password == {u \in users : u.email = email}
            data == [user_email |-> email]
            access_token == create_access_token(data, now)
            match == credentials_match(user_password, password)
        IN  /\ Pool(t)
            /\ Counted
            /\ pc[t] = "idle"
            /\ req' = [req EXCEPT ![t] = [NoReq EXCEPT !.op = "login", !.email = email,
                                                      !.password = password]]
            /\ Finish(t, IF match
                         THEN [Response(200, "") EXCEPT !.access_token = access_token]
                         ELSE Response(200,
                                "Authentication Failed, Credentials Do Not Match"))
            /\ tokens' = IF match THEN tokens \cup {Login(data, now)} ELSE tokens
            /\ UNCHANGED <<db, now>>

\* Authorization headers a client may send: none, "Bearer" alone, a string
\* that is no JWT, a token it got from login, such a token re-signed with
\* another key.
Headers ==
    {NoHeader, OnePart, Bearer(NotAJwt)}
        \cup {Bearer(i.access_token) : i \in tokens}
        \cup {Bearer([i.access_token EXCEPT !.key = OtherKey]) : i \in tokens}

\* A request to a handler that depends on decode_access_token, with a header
\* for which the dependency raises: the handler is not called.
decode_access_token_raises(t) ==
    \E Authorization \in Headers :
        LET raised == decode_access_token(Authorization, now)
        IN  /\ raised.code # 200
            /\ Pool(t)
            /\ Counted
            /\ pc[t] = "idle"
            /\ req' = [req EXCEPT ![t] = [NoReq EXCEPT !.op = "refused",
                                                      !.Authorization = Authorization]]
            /\ Finish(t, Response(raised.code, raised.detail))
            /\ UNCHANGED <<db, outside>>

\* A minute passes.
Tick ==
    /\ now < MaxTime
    /\ now' = now + 1
    /\ UNCHANGED <<db, pc, req, resp, nreq, tokens>>

\* Logins, requests with any header and the clock; requests are served one
\* after the other.
NextAuth ==
    \/ Tick
    \/ \E t \in Threads :
        \/ Alone(t) /\ login(t)
        \/ Alone(t) /\ decode_access_token_raises(t)
        \/ Alone(t) /\ make_post_with_schema(t)
        \/ Alone(t) /\ like_post(t)
        \/ Alone(t) /\ delete_post(t)
        \/ Alone(t) /\ update_post(t)
        \/ Step(t)

SpecAuth == Init /\ [][NextAuth]_vars

\* The owner of a post asks for its deletion.
delete_post_by_owner(t) ==
    /\ delete_post(t)
    /\ \E p \in posts : p.id = req'[t].id /\ p.email = req'[t].email

\* A user who owns no post likes posts while the deletions are requested;
\* the likes are not among the requests counted.
like_post_by_other_client(t) ==
    \E id \in RequestIds, email \in Emails \ {p.email : p \in posts} :
        /\ Pool(t)
        /\ like_post_from(t, id, email, 1)
        /\ UNCHANGED nreq

\* Owners delete their posts, in parallel, on a server that also takes votes.
NextDeletes ==
    \E t \in Threads :
        \/ delete_post_by_owner(t)
        \/ like_post_by_other_client(t)
        \/ VoteManagerExecute(t)
        \/ VoteManagerCommit(t)
        \/ like_post_tally(t)
        \/ DropPostExecute(t)
        \/ DropPostCommit(t)
        \/ Return(t)

SpecDeletes == Init /\ [][NextDeletes]_vars

(* ------------------------------ claims -------------------------------- *)

\* The statuses stored for (post_id, email), committed.
StoredStatus(id, email) ==
    {r.current_status : r \in user_post_like_status(post_likes, id, email)}

\* Thread t runs like_post with a valid direction and VoteManager has returned
\* without raising: the vote is written and committed.
Applied(t) ==
    /\ req[t].op = "like"
    /\ req[t].dir \in ValidDirections
    /\ \/ pc[t] = "tally"
       \/ pc[t] = "done" /\ resp[t].code = 200

\* C1: whatever like_post requests with a direction in {-1, 0, 1} were served,
\* by any voters on any posts, in any interleaving, every vote row, committed
\* or written by the open transaction, has current_status in {-1, 0, 1}.
C1_StatusInDomain ==
    \A r \in BagToSet(post_likes) \cup BagToSet(tx_likes) :
        r.current_status \in {-1, 0, 1}

\* C1's case: a dislike of a row that stood at -1 has been executed and is
\* not yet committed; the transaction holds the row at 0.
C1_Witness ==
    \E t \in Threads :
        /\ pc[t] = "vote_commit"
        /\ req[t].op = "like" /\ req[t].dir = -1
        /\ req[t].has_row /\ req[t].last = -1
        /\ \E r \in user_post_like_status(tx_likes, req[t].id, req[t].email) :
               r.current_status = 0

\* Two like_post requests of the same voter on the same post that ran at the
\* same time, both answered 200, having read the same prior row.
Raced(t, u) ==
    /\ t # u
    /\ pc[t] = "done" /\ pc[u] = "done"
    /\ req[t].op = "like" /\ req[u].op = "like"
    /\ resp[t].code = 200 /\ resp[u].code = 200
    /\ req[t].id = req[u].id /\ req[t].email = req[u].email
    /\ req[t].has_row = req[u].has_row /\ req[t].last = req[u].last

\* The status after the request of t and then the request of u, one after the
\* other, from the row both read.
SerialStatus(t, u) ==
    like_post_status(TRUE,
        like_post_status(req[t].has_row, req[t].last, req[t].dir), req[u].dir)

\* C2: when two like_post requests of one voter on one post interleave, the
\* status stored in the end is the one that running the two requests one after
\* the other, in one of the two orders, would store: neither request writes a
\* status computed from a row the other has overwritten since.
C2_SerialOutcome ==
    \A t, u \in Threads :
        Raced(t, u) =>
            StoredStatus(req[t].id, req[t].email) \subseteq
                {SerialStatus(t, u), SerialStatus(u, t)}

\* C3: in every reachable state, also after interleaved first votes of one
\* voter on one post, post_likes holds at most one row per (post_id, email),
\* in the committed table and in the open transaction.
C3_OneRowPerVoter ==
    \A likes \in {post_likes, tx_likes} :
        \A r1, r2 \in BagToSet(likes) :
            /\ likes[r1] = 1
            /\ (r1.post_id = r2.post_id /\ r1.email = r2.email) => r1 = r2

\* C3's case: two first votes of one voter on one post interleaved (both read
\* no row); one inserted and committed the row, the other's INSERT was refused.
C3_Witness ==
    \E t, u \in Threads :
        /\ t # u
        /\ req[t].op = "like" /\ req[u].op = "like"
        /\ req[t].id = req[u].id /\ req[t].email = req[u].email
        /\ req[t].dir \in ValidDirections /\ req[u].dir \in ValidDirections
        /\ ~req[t].has_row /\ ~req[u].has_row
        /\ pc[t] = "done" /\ resp[t].code = 200
        /\ pc[u] = "done" /\ resp[u].code = 500
        /\ StoredStatus(req[t].id, req[t].email) # {}

\* Thread t runs a delete_post or update_post on post p for p's owner, past
\* verify_post_owner, and its statement is in the open transaction.
OwnerWrites(t, p) ==
    /\ req[t].op \in {"delete", "update"}
    /\ pc[t] \in {"drop_commit", "update_commit"}
    /\ req[t].id = p.id
    /\ req[t].email = p.email

\* C4: over any sequence and interleaving of create, update and delete (and
\* vote) requests, a committed post row changes or disappears only through an
\* update_post or delete_post whose caller is the post's owner; a post whose
\* owner email is NULL never changes or disappears.
C4_OnlyOwnerMutates ==
    [][\A p \in posts :
          p \notin posts' =>
              /\ p.email # NULL
              /\ \E t \in Threads : OwnerWrites(t, p)]_vars

\* C4's case: the owner's update_post has changed the title of their post,
\* while the post without owner is as it was.
C4_Witness ==
    \E t \in Threads :
        /\ pc[t] = "done" /\ req[t].op = "update" /\ resp[t].code = 200
        /\ req[t].hit /\ req[t].title # OwnedPost.title
        /\ [id |-> req[t].id, email |-> req[t].email, title |-> req[t].title] \in posts
        /\ LegacyPost \in posts

C6_OverwriteWithDirection ==
    \A t \in Threads :
        (Applied(t) /\ req[t].has_row /\ req[t].dir \in {0, 1}) =>
            StoredStatus(req[t].id, req[t].email) = {req[t].dir}

\* C6's case: direction 0 on a row that stood at -1: the row is at 0.
C6_Witness ==
    \E t \in Threads :
        /\ Applied(t) /\ pc[t] = "done"
        /\ req[t].has_row /\ req[t].last = -1 /\ req[t].dir = 0
        /\ StoredStatus(req[t].id, req[t].email) = {0}

\* C7: a like_post with direction -1 on an existing row, once carried out,
\* takes status 1 to 0 and status 0 to -1.
C7_DislikeStepsDown ==
    \A t \in Threads :
        (Applied(t) /\ req[t].has_row /\ req[t].dir = -1 /\ req[t].last \in {0, 1}) =>
            StoredStatus(req[t].id, req[t].email) = {req[t].last - 1}

\* C7's case: a dislike of a row at 0 was answered 200 and the row is at -1.
C7_Witness ==
    \E t \in Threads :
        /\ Applied(t) /\ pc[t] = "done"
        /\ req[t].has_row /\ req[t].dir = -1 /\ req[t].last = 0
        /\ StoredStatus(req[t].id, req[t].email) = {-1}

\* Thread t has carried out a dislike of a row that stood at -1.
DislikedAtMinusOne(t) ==
    Applied(t) /\ req[t].has_row /\ req[t].dir = -1 /\ req[t].last = -1

\* C8 as stated: a like_post with direction -1 on a row whose status is -1
\* stores -2.
C8_Original ==
    \A t \in Threads :
        DislikedAtMinusOne(t) => StoredStatus(req[t].id, req[t].email) = {-2}

\* C8 amended: a like_post with direction -1 on a row whose status is -1
\* stores abs(-1) - 1 = 0, a value inside {-1, 0, 1}.
C8_DislikeOfDislikeIsNeutral ==
    \A t \in Threads :
        DislikedAtMinusOne(t) => StoredStatus(req[t].id, req[t].email) = {0}

\* C8's case: the dislike of a row at -1 was answered 200 and the row is at 0.
C8_Witness ==
    \E t \in Threads :
        /\ DislikedAtMinusOne(t) /\ pc[t] = "done"
        /\ StoredStatus(req[t].id, req[t].email) = {0}

\* C9 as stated: from a vote row with status 0, repeated like_post requests
\* with direction -1 bring a stored status below -1.
C9_Original ==
    <>(\E r \in BagToSet(post_likes) : r.current_status < -1)

\* C9 amended: from a vote row with status 0, no sequence of repeated
\* direction -1 requests brings the row below -1: a row at 0 or -1 is at 0
\* or -1 after every step, alternating 0, -1, 0, ...
C9_DislikesAlternate ==
    [][\A r \in BagToSet(post_likes) :
          r.current_status \in {-1, 0} =>
              \E r2 \in BagToSet(post_likes') :
                  /\ r2.post_id = r.post_id /\ r2.email = r.email
                  /\ r2.current_status \in {-1, 0}]_vars

\* C9's case: the second of two dislikes in a row: the row that started at 0
\* was read at -1 and is back at 0.
C9_Witness ==
    \E t \in Threads :
        /\ pc[t] = "tally" /\ req[t].op = "like" /\ req[t].dir = -1
        /\ req[t].has_row /\ req[t].last = -1
        /\ StoredStatus(req[t].id, req[t].email) = {0}

\* The same like_post was sent twice in a row and answered 200 both times;
\* thread 1 served the first, thread 2 the second.
Twice ==
    /\ pc[1] = "done" /\ pc[2] = "done"
    /\ req[1].op = "like" /\ req[2].op = "like"
    /\ resp[1].code = 200 /\ resp[2].code = 200

\* The status after the first application (what the second one read) is the
\* status after the second.
SameAfterBoth ==
    /\ req[2].has_row
    /\ StoredStatus(req[2].id, req[2].email) = {req[2].last}

\* C10 as stated: for every starting state of a pair (no row, or a row with
\* any status) and every direction in {0, 1}, like_post applied twice in a row
\* leaves the same status after the first as after the second application.
C10_Original ==
    (Twice /\ req[1].dir \in {0, 1}) => SameAfterBoth

\* C10 amended: the same, for every starting state with a row and every
\* direction in {0, 1}, and for the starting state without a row and
\* direction 1 (without a row, direction 0 stores 1 and then 0).
C10_IdempotentOnRows ==
    (Twice /\ req[1].dir \in {0, 1} /\ (req[1].has_row \/ req[1].dir = 1))
        => SameAfterBoth

\* C10's case: direction 0 twice on a row that stood at -1: 0 after the
\* first, 0 after the second.
C10_Witness ==
    /\ Twice
    /\ req[1].has_row /\ req[1].last = -1 /\ req[1].dir = 0
    /\ req[2].last = 0
    /\ StoredStatus(req[2].id, req[2].email) = {0}

\* C11: a like_post request whose direction is not in {-1, 0, 1} is answered
\* with an error (401) in its first step and that step leaves every vote row
\* as it was, in the committed table and in the open transaction: nothing is
\* inserted, nothing updated.
C11_InvalidDirectionRejected ==
    [][\A t \in Threads :
          (req[t].op = "none" /\ req'[t].op = "like" /\ req'[t].dir \notin {-1, 0, 1})
          => /\ pc'[t] = "done"
             /\ resp'[t].code = 401
             /\ post_likes' = post_likes
             /\ tx_likes' = tx_likes
             /\ conn_status' = conn_status]_vars

\* C11's case: direction 2 on a pair that has a vote row was answered 401 and
\* the row is still there.
C11_Witness ==
    \E t \in Threads :
        /\ pc[t] = "done" /\ req[t].op = "like" /\ req[t].dir = 2
        /\ resp[t].code = 401
        /\ StoredStatus(req[t].id, req[t].email) # {}

\* Thread t has finished a like_post with a valid direction for an id that no
\* post has.
VotedOnMissingPost(t) ==
    /\ pc[t] = "done" /\ req[t].op = "like"
    /\ req[t].dir \in ValidDirections
    /\ \A p \in posts : p.id # req[t].id

\* C12: a like_post request for a post id that does not exist is answered with
\* post-not-found (404), and the vote table holds no row for that id.
C12_MissingPostIs404 ==
    \A t \in Threads :
        VotedOnMissingPost(t) =>
            /\ resp[t].code = 404
            /\ \A r \in BagToSet(post_likes) : r.post_id # req[t].id

\* Number of committed vote rows of all posts with a status in S.
CountVotes(likes, S) ==
    Cardinality({r \in BagToSet(likes) : r.current_status \in S})

BeforeVote(t) == UpdateVoteRows(post_likes, req[t].id, req[t].email, req[t].last)

\* Thread t, served with no other request running, has disliked a row that
\* stood at 1.
DislikedALike(t) ==
    /\ pc[t] = "done" /\ req[t].op = "like" /\ resp[t].code = 200
    /\ req[t].has_row /\ req[t].last = 1 /\ req[t].dir = -1

\* C14: with no other request interleaved, when a voter whose row has status 1
\* requests direction -1, total_likes is one less than before the request and
\* total_negative_votes and total_interactions are what they were before.
C14_DislikeOfLikeAggregate ==
    \A t \in Threads :
        DislikedALike(t) =>
            /\ resp[t].total_likes = CountVotes(BeforeVote(t), {1}) - 1
            /\ resp[t].total_negative_votes = CountVotes(BeforeVote(t), {-1})
            /\ resp[t].total_interactions = CountVotes(BeforeVote(t), {-1, 0, 1})

\* C14's case: the only vote row stood at 1 and was disliked: no like is
\* left, no negative vote, one interaction.
C14_Witness ==
    \E t \in Threads :
        /\ DislikedALike(t)
        /\ resp[t].total_likes = 0
        /\ resp[t].total_negative_votes = 0
        /\ resp[t].total_interactions = 1
        /\ CountVotes(BeforeVote(t), {1}) = 1

\* Thread t starts a delete_post (method "delete") or an update_post (method
\* "update") in this step: the handler calls verify_post_owner first.
Verifies(t, method) ==
    /\ method \in {"delete", "update"}
    /\ req[t].op = "none"
    /\ req'[t].op = method

\* The posts row that verify_post_owner reads for the request thread t starts.
OwnerRow(t) == {p \in posts : p.id = req'[t].id}

\* C15: for every post whose owner email is NULL, verify_post_owner fails with
\* the development-post error (403), for every caller email and for both
\* methods, and the handler ends there.
C15_NoOwnerRefused ==
    [][\A t \in Threads, method \in {"delete", "update"} :
          (Verifies(t, method) /\ \E p \in OwnerRow(t) : p.email = NULL)
          => /\ pc'[t] = "done"
             /\ resp'[t] = Response(403, development_post(method))]_vars

\* C15's case: an update_post on the post without owner was refused as a
\* development post.
C15_Witness ==
    \E t \in Threads :
        /\ pc[t] = "done" /\ req[t].op = "update" /\ req[t].id = LegacyPost.id
        /\ resp[t].code = 403
        /\ resp[t].message = development_post("update")

\* C16: for every existing post with a non-NULL owner email, verify_post_owner
\* succeeds when the caller is the owner (the handler goes on to DropPost or
\* UpdatePost) and fails with the not-owner error (403) for every other
\* caller; this is so for method 'delete' and for method 'update' alike.
C16_OwnerPassesOthersRefused ==
    [][\A t \in Threads, method \in {"delete", "update"} :
          \A p \in posts :
              (Verifies(t, method) /\ p \in OwnerRow(t) /\ p.email # NULL)
              => IF req'[t].email = p.email
                    THEN /\ pc'[t] = (IF method = "delete" THEN "drop" ELSE "update")
                         /\ resp'[t] = NoResp
                    ELSE /\ pc'[t] = "done"
                         /\ resp'[t] = Response(403,
                                not_authorized(p.email, req'[t].email, method))]_vars

\* C16's case: a delete_post by another user on an owned post was refused
\* with the not-owner error and the post is still there.
C16_Witness ==
    \E t \in Threads :
        /\ pc[t] = "done" /\ req[t].op = "delete"
        /\ req[t].id = OwnedPost.id /\ req[t].email = "b@x"
        /\ resp[t] = Response(403, not_authorized("a@x", "b@x", "delete"))
        /\ OwnedPost \in posts

\* C17: verify_post_owner on a post id that does not exist fails with status
\* 403, the status of the no-owner and not-owner failures, and the
\* delete_post or update_post ends there without changing a post row.
C17_MissingPostRefused ==
    [][\A t \in Threads, method \in {"delete", "update"} :
          (Verifies(t, method) /\ OwnerRow(t) = {})
          => /\ pc'[t] = "done"
             /\ resp'[t] = Response(403, post_does_not_exist(method))
             /\ posts' = posts
             /\ tx_posts' = tx_posts]_vars

\* C17's case: a delete_post on an id that no post has was answered 403.
C17_Witness ==
    \E t \in Threads :
        /\ pc[t] = "done" /\ req[t].op = "delete"
        /\ \A p \in posts : p.id # req[t].id
        /\ resp[t] = Response(403, post_does_not_exist("delete"))

\* Thread t receives, in this step, a request to an authenticated handler
\* whose header carries the token of login i.
Presents(t, i) ==
    /\ req[t].op = "none"
    /\ req'[t].op \notin {"none", "login"}
    /\ req'[t].Authorization = Bearer(i.access_token)

BadCredential(Authorization) ==
    \/ ~Authorization.present
    \/ Authorization.parts < 2
    \/ ~Authorization.token.wellformed
    \/ Authorization.token.key # SECRET_KEY

\* C19: every authenticated request whose Authorization header is absent, is
\* malformed (a value without a space-separated token part included) or
\* carries a token with a bad signature is rejected with 401, 'Authorization
\* header missing' for the absent header and 'Invalid token' for the others,
\* and the handler is not run.
C19_BadCredentialIs401 ==
    \A t \in Threads :
        (pc[t] = "done" /\ req[t].op = "refused" /\ BadCredential(req[t].Authorization))
        => resp[t] = Response(401, IF req[t].Authorization.present
                                      THEN "Invalid token"
                                      ELSE "Authorization header missing")

\* A user row exists for the email of t's login and its password is the one
\* supplied.
StoredCredentials(t) ==
    \E u \in users : u.email = req[t].email /\ u.password = req[t].password

\* C20: login returns an access token if and only if a user row exists for
\* the supplied email and its stored password equals the supplied one (the
\* token then carries that email); in every other case the response carries
\* the authentication-failed message and no token.
C20_TokenIffCredentialsMatch ==
    \A t \in Threads :
        (pc[t] = "done" /\ req[t].op = "login") =>
            /\ (resp[t].access_token # NoToken) <=> StoredCredentials(t)
            /\ StoredCredentials(t) =>
                   /\ resp[t].access_token.wellformed
                   /\ resp[t].access_token.payload.user_email = req[t].email
                   /\ resp[t].message = ""
            /\ ~StoredCredentials(t) =>
                   resp[t] = Response(200,
                               "Authentication Failed, Credentials Do Not Match")

\* C20's case: a login with a registered email and another user's password
\* got the authentication-failed message and no token.
C20_Witness ==
    \E t \in Threads :
        /\ pc[t] = "done" /\ req[t].op = "login"
        /\ req[t].email = "a@x" /\ req[t].password = "Password#2"
        /\ resp[t].access_token = NoToken
        /\ resp[t].message = "Authentication Failed, Credentials Do Not Match"

\* Thread t has answered a request and the operation did what was asked: a
\* login gave a token, the other handlers returned their success message.
Succeeded(t) ==
    /\ pc[t] = "done"
    /\ IF req[t].op = "login"
       THEN resp[t].access_token # NoToken
       ELSE resp[t].message \in {"Successfully Created Your Post",
                                 "Vote successfully recorded.",
                                 "Post is successfully deleted.",
                                 "Post updated successfully."}

\* Thread t has answered a request and the operation failed.
Failed(t) == pc[t] = "done" /\ ~Succeeded(t)

\* C21: every failing operation (a failed login, a rejected vote, a rejected
\* post update or delete, a refused token) is answered with a status code
\* other than 200, the status of a successful call; none returns the success
\* status with only a message.
C21_FailuresHaveErrorStatus ==
    \A t \in Threads : Failed(t) => resp[t].code # 200

\* Thread t has answered a like_post with 200 and the post is still there.
VotedSuccessfully(t) ==
    /\ pc[t] = "done" /\ req[t].op = "like" /\ resp[t].code = 200
    /\ \E p \in posts : p.id = req[t].id

\* C22: in every reachable state a vote row exists for (post_id, voter_email)
\* when that voter has made a successful like_post request on that post and
\* the post has not been deleted since: vote rows go away only with their post.
C22_RowForEverySuccessfulVote ==
    \A t \in Threads :
        VotedSuccessfully(t) => StoredStatus(req[t].id, req[t].email) # {}

\* Thread t has answered a valid write request: a like_post with a valid
\* direction on a post that exists, or a delete_post or update_post that
\* passed verify_post_owner.
ValidWrite(t) ==
    /\ pc[t] = "done"
    /\ \/ /\ req[t].op = "like"
          /\ req[t].dir \in ValidDirections
          /\ \E p \in posts : p.id = req[t].id
       \/ /\ req[t].op \in {"delete", "update"}
          /\ resp[t].code # 403

\* C23: a valid write request on the shared connection succeeds, also when an
\* earlier vote, update or delete write on that connection failed with a
\* store error: a failed write does not make the later writes fail.
C23_WritesSucceedAfterFailedWrite ==
    \A t \in Threads : ValidWrite(t) => resp[t].code = 200

\* The vote rows other than the row of (id, email).
OtherVotes(likes, id, email) ==
    [r \in {x \in BagToSet(likes) : ~(x.post_id = id /\ x.email = email)} |-> likes[r]]

\* Thread t takes a step of a like_post request in this step.
LikeStep(t) == req'[t].op = "like" /\ pc'[t] # pc[t]

\* C24: a like_post request by voter V on post P changes at most the vote row
\* (P, V): every step of the request leaves every post row and every vote row
\* of another voter or another post as it was, committed and in the open
\* transaction; V is the user_email of the validated token of the request.
C24_LikeChangesOwnRowOnly ==
    [][\A t \in Threads :
          LikeStep(t) =>
              /\ posts' = posts
              /\ tx_posts' = tx_posts
              /\ next_id' = next_id
              /\ OtherVotes(post_likes', req'[t].id, req'[t].email)
                     = OtherVotes(post_likes, req'[t].id, req'[t].email)
              /\ OtherVotes(tx_likes', req'[t].id, req'[t].email)
                     = OtherVotes(tx_likes, req'[t].id, req'[t].email)
              /\ req'[t].email = req'[t].token_data.user_email
              /\ req'[t].token_data = req'[t].Authorization.token.payload]_vars

\* C24's case: a successful update of the row (P, V) while another voter has
\* a row on the same post P.
C24_Witness ==
    \E t \in Threads :
        /\ pc[t] = "done" /\ req[t].op = "like" /\ resp[t].code = 200
        /\ req[t].has_row
        /\ \E r \in BagToSet(post_likes) :
               r.post_id = req[t].id /\ r.email # req[t].email

\* Threads t and u have both answered a delete_post of the same post by the
\* same caller, and both passed verify_post_owner.
DeletedTwice(t, u) ==
    /\ t # u
    /\ pc[t] = "done" /\ pc[u] = "done"
    /\ req[t].op = "delete" /\ req[u].op = "delete"
    /\ req[t].id = req[u].id /\ req[t].email = req[u].email
    /\ resp[t].code # 403 /\ resp[u].code # 403

\* C25: when two delete_post requests of the owner for the same post have
\* both passed the ownership check and both been answered, the post row is
\* gone, exactly one answer is 'Post is successfully deleted.' and the other
\* is 'Post was already deleted or does not exist.'.
C25_OneDeleteReportsSuccess ==
    \A t, u \in Threads :
        DeletedTwice(t, u) =>
            /\ ~ \E p \in posts : p.id = req[t].id
            /\ {resp[t].message, resp[u].message}
                   = {"Post is successfully deleted.",
                      "Post was already deleted or does not exist."}
====
